---- MODULE Spec2Model ----
(***************************************************************************)
(* Model of the claude CLI (src/index.ts, src/lib/config.ts, src/lib/api.ts *)
(* and src/types/index.ts).  One behaviour is one process invocation: the   *)
(* environment and the command line are fixed by Init, the subcommand's     *)
(* action runs up to each await, and the remote service answers or fails.   *)
(* Strings are sequences of one-character strings.                          *)
(***************************************************************************)
EXTENDS Integers, Sequences, FiniteSets, TLC

VARIABLES env, cmd, pc, config, history, inflight, lastRequest, lastInput,
          lastStatus, afterClear, printed, exitCode

vars == <<env, cmd, pc, config, history, inflight, lastRequest, lastInput,
          lastStatus, afterClear, printed, exitCode>>

\* ------------------------------------------------------------------ bounds
\* Greatest number of prompt turns (user + assistant pair) kept in history.
MaxTurns == 2

\* --------------------------------------------------------------- strings
OPUS41 == <<"c","l","a","u","d","e","-","o","p","u","s","-","4","-","1","-","2","0","2","5","0","8","0","5">>
OPUS4 == <<"c","l","a","u","d","e","-","o","p","u","s","-","4","-","2","0","2","5","0","5","1","4">>
SONNET37 == <<"c","l","a","u","d","e","-","3","-","7","-","s","o","n","n","e","t","-","l","a","t","e","s","t">>
BOGUS == <<"b","o","g","u","s","-","i","d">>

\* The allowed-model enumeration.
ALLOWED_MODELS == {OPUS41, OPUS4, SONNET37}

\* The schema's default model id.
DefaultModel == OPUS4

\* The schema's default token limit.
DefaultMaxTokens == 1000

\* An optional value: undefined, or a defined string.
Undefined == [def |-> FALSE, val |-> <<>>]
Some(s) == [def |-> TRUE, val |-> s]

Whitespace == {" "}
Digits == {"0", "1", "2", "3", "4", "5", "6", "7", "8", "9"}

DigitVal(c) ==
    CASE c = "0" -> 0 [] c = "1" -> 1 [] c = "2" -> 2 [] c = "3" -> 3
      [] c = "4" -> 4 [] c = "5" -> 5 [] c = "6" -> 6 [] c = "7" -> 7
      [] c = "8" -> 8 [] c = "9" -> 9

RECURSIVE TrimStart(_)
TrimStart(s) ==
    IF s # <<>> /\ Head(s) \in Whitespace THEN TrimStart(Tail(s)) ELSE s

RECURSIVE TrimEnd(_)
TrimEnd(s) ==
    IF s # <<>> /\ s[Len(s)] \in Whitespace
    THEN TrimEnd(SubSeq(s, 1, Len(s) - 1))
    ELSE s

\* String.prototype.trim
Trim(s) == TrimEnd(TrimStart(s))

\* String.prototype.startsWith
StartsWith(s, p) == Len(s) >= Len(p) /\ SubSeq(s, 1, Len(p)) = p

\* String.prototype.split(/\s+/): the pieces between maximal whitespace runs.
RECURSIVE SplitFrom(_, _, _)
SplitFrom(s, cur, acc) ==
    IF s = <<>> THEN Append(acc, cur)
    ELSE IF Head(s) \in Whitespace
         THEN SplitFrom(TrimStart(s), <<>>, Append(acc, cur))
         ELSE SplitFrom(Tail(s), Append(cur, Head(s)), acc)

SplitWs(s) == SplitFrom(s, <<>>, <<>>)

\* The number parseInt reads: NaN, or the value of the longest signed digit
\* prefix after leading whitespace (radix 10).
NaN == [nan |-> TRUE, n |-> 0]
Num(k) == [nan |-> FALSE, n |-> k]

RECURSIVE DigitPrefix(_, _, _)
DigitPrefix(s, acc, seen) ==
    IF s # <<>> /\ Head(s) \in Digits
    THEN DigitPrefix(Tail(s), 10 * acc + DigitVal(Head(s)), TRUE)
    ELSE IF seen THEN Num(acc) ELSE NaN

ParseInt(str) ==
    LET s == TrimStart(str)
        neg == s # <<>> /\ Head(s) = "-"
        body == IF s # <<>> /\ Head(s) \in {"-", "+"} THEN Tail(s) ELSE s
        r == DigitPrefix(body, 0, FALSE)
    IN  IF r.nan THEN NaN ELSE IF neg THEN Num(0 - r.n) ELSE r

\* JavaScript truthiness of an optional string and of a parsed number.
TruthyStr(o) == o.def /\ o.val # <<>>
TruthyNum(x) == ~x.nan /\ x.n # 0

\* ---------------------------------------------------------- configuration
NoConfig == [apiKey |-> <<>>, model |-> <<>>, maxTokens |-> 0]

\* z.string().min(1)
ApiKeyAccepted_NoMin(k) == k.def
ApiKeyAccepted(k) == k.def /\ Len(k.val) >= 1

\* z.enum(ALLOWED_MODELS)
IsAllowedModel(id) == id \in ALLOWED_MODELS

\* z.number().positive()
PositiveNumber(x) == ~x.nan /\ x.n > 0

\* The maxTokens value loadConfig hands to the schema:
\* process.env.MAX_TOKENS ? parseInt(process.env.MAX_TOKENS) : undefined
MaxTokensInput(e) ==
    IF TruthyStr(e.MAX_TOKENS)
    THEN [def |-> TRUE, num |-> ParseInt(e.MAX_TOKENS.val)]
    ELSE [def |-> FALSE, num |-> NaN]

\* ConfigSchema.parse: ok with the record, or a thrown ZodError.
ConfigSchemaParse(apiKey, model, maxTokens) ==
    IF /\ ApiKeyAccepted(apiKey)
       /\ (model.def => IsAllowedModel(model.val))
       /\ (maxTokens.def => PositiveNumber(maxTokens.num))
    THEN [ok |-> TRUE,
          config |-> [apiKey |-> apiKey.val,
                      model |-> IF model.def THEN model.val ELSE DefaultModel,
                      maxTokens |-> IF maxTokens.def THEN maxTokens.num.n
                                    ELSE DefaultMaxTokens]]
    ELSE [ok |-> FALSE, config |-> NoConfig]

\* loadConfig: the parsed record, or the error lines and process.exit(1).
loadConfig(e) ==
    ConfigSchemaParse(e.ANTHROPIC_API_KEY, e.CLAUDE_MODEL, MaxTokensInput(e))

\* ------------------------------------------------------------ Model Client
Line(tag, arg) == [tag |-> tag, arg |-> arg]

NoRequest == [kind |-> "none", model |-> <<>>, max_tokens |-> 0, messages |-> <<>>]

Turn(role, content) == [role |-> role, content |-> content]

\* client.messages.create({model, max_tokens, messages})
MessagesRequest(c, messages) ==
    [kind |-> "messages", model |-> c.model, max_tokens |-> c.maxTokens,
     messages |-> messages]

\* fetch('https://api.anthropic.com/v1/models') with no options
ModelsRequest ==
    [kind |-> "models", model |-> <<>>, max_tokens |-> 0, messages |-> <<>>]

\* message.content.filter(text).map(text).join('\n')
RECURSIVE JoinText(_, _)
JoinText(blocks, first) ==
    IF blocks = <<>> THEN <<>>
    ELSE IF Head(blocks).type # "text" THEN JoinText(Tail(blocks), first)
    ELSE (IF first THEN <<>> ELSE <<"\n">>) \o Head(blocks).text
         \o JoinText(Tail(blocks), FALSE)

ExtractContent(message) == JoinText(message.content, TRUE)

Usage(message) ==
    [inputTokens |-> message.usage.input_tokens,
     outputTokens |-> message.usage.output_tokens]

\* What the awaited remote call throws.  The SDK throws Anthropic.APIError
\* (status 0 stands for a connection error, whose status is undefined);
\* listModels throws a plain Error for a non-OK response.
SdkError(status) == [apiError |-> TRUE, status |-> status]
PlainError == [apiError |-> FALSE, status |-> 0]

HintCredentials == "Check your API key in the .env file"
HintRateLimit == "Rate limit exceeded. Please wait a moment."
HintBadRequest == "Invalid request. Check your prompt or parameters."

\* The error thrown inside listModels for a response that is not ok.
ListModelsNotOk(status) == PlainError

\* ClaudeAPI.handleError: the lines written to stderr; it then calls
\* process.exit(1) on both branches.
handleError(error) ==
    IF error.apiError
    THEN <<Line("API Error:", <<>>)>> \o
         (IF error.status = 401 THEN <<Line(HintCredentials, <<>>)>>
          ELSE IF error.status = 429 THEN <<Line(HintRateLimit, <<>>)>>
          ELSE IF error.status = 400 THEN <<Line(HintBadRequest, <<>>)>>
          ELSE <<>>)
    ELSE <<Line("Unexpected error:", <<>>)>>

handleErrorExit == 1

\* ClaudeAPI.chat(history, prompt): the messages it sends and what it returns.
ChatMessages(h, prompt) == Append(h, Turn("user", prompt))

ChatResult(h, prompt, message) ==
    [response |-> ExtractContent(message),
     usage |-> Usage(message),
     updatedHistory |-> Append(ChatMessages(h, prompt),
                               Turn("assistant", ExtractContent(message)))]

\* ------------------------------------------------------------ input sets
ApiKeys == {Undefined, Some(<<>>), Some(<<"s","k">>)}
EnvModels == {Undefined, Some(SONNET37), Some(BOGUS)}
TokenStrings == {Undefined, Some(<<"a","b","c">>), Some(<<"0">>),
                 Some(<<"-","5">>), Some(<<"7","x">>)}
Environments ==
    [ANTHROPIC_API_KEY : ApiKeys, CLAUDE_MODEL : EnvModels, MAX_TOKENS : TokenStrings]

Hi == <<"h","i">>
AskOptions ==
    [model : {Undefined, Some(SONNET37), Some(BOGUS)},
     tokens : {Undefined, Some(<<"a","b","c">>), Some(<<"0">>), Some(<<"-","5">>),
               Some(<<"5","0">>)}]
NoOptions == [model |-> Undefined, tokens |-> Undefined]
Commands ==
    [name : {"ask"}, prompt : {Hi}, options : AskOptions]
      \cup [name : {"models", "chat"}, prompt : {<<>>}, options : {NoOptions}]

TextBlock(t) == [type |-> "text", text |-> t]
ToolBlock == [type |-> "tool_use", text |-> <<>>]
Messages ==
    { [content |-> <<TextBlock(<<"H","e","l","l","o">>)>>,
       usage |-> [input_tokens |-> 5, output_tokens |-> 2]],
      [content |-> <<TextBlock(<<"H","e","l">>), ToolBlock, TextBlock(<<"l","o">>)>>,
       usage |-> [input_tokens |-> 9, output_tokens |-> 3]] }
Statuses == {0, 400, 401, 429, 500}
HttpStatuses == {400, 401, 429, 500}

\* ----------------------------------------------------------------- state
Running == 0 - 1

\* lastStatus: how the most recent remote call ended (HTTP-like status, 0 for
\* a transport failure), or NoStatus before any call has ended.
NoStatus == 0 - 1
StatusOk == 200

\* afterClear observes the session for the /clear properties: "cleared" from
\* a /clear that emptied a non-empty history until the next turn completes,
\* "first" while that turn is the only one completed since, "no" otherwise.

Init ==
    /\ env \in Environments
    /\ cmd \in Commands
    /\ pc = "start"
    /\ config = NoConfig
    /\ history = <<>>
    /\ inflight = {}
    /\ lastRequest = NoRequest
    /\ lastInput = Undefined
    /\ lastStatus = NoStatus
    /\ afterClear = "no"
    /\ printed = <<>>
    /\ exitCode = Running

\* process.exit(code), or the action returning with nothing left to run.
Exit(code, lines) ==
    /\ pc' = "exited"
    /\ exitCode' = code
    /\ printed' = lines
    /\ inflight' = {}

\* The call issued without being awaited: the handler carries on where it was.
Send_NotAwaited(req, waitPc, lines) ==
    /\ inflight' = inflight \cup {req}
    /\ lastRequest' = req
    /\ pc' = pc
    /\ printed' = lines
    /\ UNCHANGED <<exitCode, lastStatus>>

\* Issue a remote call and suspend on it.
Send(req, waitPc, lines) ==
    /\ inflight' = inflight \cup {req}
    /\ lastRequest' = req
    /\ pc' = waitPc
    /\ printed' = lines
    /\ UNCHANGED <<exitCode, lastStatus>>

\* ------------------------------------------------------------------- ask
\* The option parser of --tokens is parseInt.
OptionTokens(options) ==
    IF options.tokens.def THEN [def |-> TRUE, num |-> ParseInt(options.tokens.val)]
    ELSE [def |-> FALSE, num |-> NaN]

\* if (options.model) config.model = ...; if (options.tokens) config.maxTokens = ...
AskOverrides(c, options) ==
    [c EXCEPT !.model = IF TruthyStr(options.model) THEN options.model.val ELSE @,
              !.maxTokens = IF OptionTokens(options).def /\ TruthyNum(OptionTokens(options).num)
                            THEN OptionTokens(options).num.n ELSE @]

AskStart ==
    /\ pc = "start" /\ cmd.name = "ask"
    /\ LET r == loadConfig(env) IN
       IF ~r.ok
       THEN /\ Exit(1, <<Line("Configuration error:", <<>>)>>)
            /\ UNCHANGED <<env, cmd, config, history, lastRequest, lastInput, lastStatus, afterClear>>
       ELSE LET c == AskOverrides(r.config, cmd.options) IN
            /\ config' = c
            /\ Send(MessagesRequest(c, <<Turn("user", cmd.prompt)>>), "askWait",
                    <<Line("Asking Claude...", <<>>), Line("Model:", c.model),
                      Line("Max tokens:", <<c.maxTokens>>)>>)
            /\ UNCHANGED <<env, cmd, history, lastInput, afterClear>>

AskReply ==
    /\ pc = "askWait"
    /\ \E message \in Messages :
         Exit(0, <<Line("Claude says:", ExtractContent(message)),
                   Line("Tokens used:", <<Usage(message).inputTokens,
                                          Usage(message).outputTokens>>)>>)
    /\ lastStatus' = StatusOk
    /\ UNCHANGED <<env, cmd, config, history, lastRequest, lastInput, afterClear>>

AskError ==
    /\ pc = "askWait"
    /\ \E status \in Statuses :
         /\ Exit(handleErrorExit, handleError(SdkError(status)))
         /\ lastStatus' = status
    /\ UNCHANGED <<env, cmd, config, history, lastRequest, lastInput, afterClear>>

\* ---------------------------------------------------------------- models
ModelsStart ==
    /\ pc = "start" /\ cmd.name = "models"
    /\ LET r == loadConfig(env) IN
       IF ~r.ok
       THEN /\ Exit(1, <<Line("Configuration error:", <<>>)>>)
            /\ UNCHANGED <<env, cmd, config, history, lastRequest, lastInput, lastStatus, afterClear>>
       ELSE /\ config' = r.config
            /\ Send(ModelsRequest, "modelsWait",
                    <<Line("Fetching available models...", <<>>)>>)
            /\ UNCHANGED <<env, cmd, history, lastInput, afterClear>>

ModelsReply ==
    /\ pc = "modelsWait"
    /\ \E hasMore \in BOOLEAN :
         Exit(0, <<Line("Available Claude Models:", <<>>)>> \o
                 (IF hasMore THEN <<Line("Note: More models are available.", <<>>)>>
                  ELSE <<>>))
    /\ lastStatus' = StatusOk
    /\ UNCHANGED <<env, cmd, config, history, lastRequest, lastInput, afterClear>>

\* A response that is not ok, or fetch itself rejecting (status 0).
ModelsError ==
    /\ pc = "modelsWait"
    /\ \E status \in HttpStatuses \cup {0} :
         /\ Exit(handleErrorExit,
                 handleError(IF status = 0 THEN PlainError ELSE ListModelsNotOk(status)))
         /\ lastStatus' = status
    /\ UNCHANGED <<env, cmd, config, history, lastRequest, lastInput, afterClear>>

\* ------------------------------------------------------------------ chat
CmdExit == <<"/","e","x","i","t">>
CmdClear == <<"/","c","l","e","a","r">>
CmdHelp == <<"/","h","e","l","p">>
CmdModel == <<"/","m","o","d","e","l">>
StreamOn == <<"/","s","t","r","e","a","m"," ","o","n">>
StreamOff == <<"/","s","t","r","e","a","m"," ","o","f","f">>

\* A line that starts with '/model' without being the /model command.
LineModels == CmdModel \o <<"s">>

\* Lines the user may type at the "You:" prompt.
InputLines ==
    { CmdExit, <<" ">> \o CmdClear \o <<" ">>, CmdHelp, CmdModel,
      CmdModel \o <<" ">> \o OPUS41, CmdModel \o <<" ">> \o OPUS4,
      CmdModel \o <<" ", " ">> \o SONNET37, CmdModel \o <<" ">> \o BOGUS,
      <<>>, <<" ", " ">>, Hi, StreamOn, LineModels }

\* ALLOWED_MODELS.includes(newModel)
ModelIncluded_Any(newModel) == TRUE
ModelIncluded(newModel) == newModel \in ALLOWED_MODELS

\* history = [] on /clear
ClearedHistory_Kept(h) == h
ClearedHistory(h) == <<>>

\* history = updatedHistory after a turn
AdoptedHistory_LastPair(h, result) ==
    SubSeq(result.updatedHistory, Len(result.updatedHistory) - 1,
           Len(result.updatedHistory))
AdoptedHistory_NoReply(h, result) ==
    SubSeq(result.updatedHistory, 1, Len(result.updatedHistory) - 1)
AdoptedHistory(h, result) == result.updatedHistory

ChatStart ==
    /\ pc = "start" /\ cmd.name = "chat"
    /\ LET r == loadConfig(env) IN
       IF ~r.ok
       THEN /\ Exit(1, <<Line("Configuration error:", <<>>)>>)
            /\ UNCHANGED <<env, cmd, config, history, lastRequest, lastInput, lastStatus, afterClear>>
       ELSE /\ config' = r.config
            /\ history' = <<>>
            /\ pc' = "chatInput"
            /\ printed' = <<Line("Welcome to Claude Chat!", <<>>)>>
            /\ UNCHANGED <<env, cmd, inflight, lastRequest, lastInput, lastStatus, afterClear, exitCode>>

\* One iteration of the while (true) loop, from the line read to the next
\* await (or to the break).
ChatInput ==
    /\ pc = "chatInput"
    /\ \E userInput \in InputLines :
         LET trimmed == Trim(userInput)
             parts == SplitWs(trimmed)
         IN
         /\ lastInput' = Some(trimmed)
         /\ (trimmed # CmdClear => afterClear' = afterClear)
         /\ IF trimmed = CmdExit
            THEN /\ Exit(0, <<Line("Chat ended.", <<>>)>>)
                 /\ UNCHANGED <<config, history, lastRequest, lastStatus>>
            ELSE IF trimmed = CmdClear
            THEN /\ history' = ClearedHistory(history)
                 /\ afterClear' = IF history # <<>> THEN "cleared" ELSE afterClear
                 /\ printed' = <<Line("History cleared.", <<>>)>>
                 /\ UNCHANGED <<pc, config, inflight, lastRequest, lastStatus, exitCode>>
            ELSE IF trimmed = CmdHelp
            THEN /\ printed' = <<Line("Commands: /exit, /clear, /help, /model [id]", <<>>),
                                 Line("Current model:", config.model)>>
                 /\ UNCHANGED <<pc, config, history, inflight, lastRequest, lastStatus,
                                exitCode>>
            ELSE IF StartsWith(trimmed, CmdModel)
            THEN IF Len(parts) = 1
                 THEN /\ Send(ModelsRequest, "chatModelsWait",
                              <<Line("Fetching available models...", <<>>)>>)
                      /\ UNCHANGED <<config, history>>
                 ELSE IF ModelIncluded(parts[2])
                 THEN /\ config' = [config EXCEPT !.model = parts[2]]
                      /\ printed' = <<Line("Model set to:", parts[2])>>
                      /\ UNCHANGED <<pc, history, inflight, lastRequest, lastStatus,
                                     exitCode>>
                 ELSE /\ printed' = <<Line("Unknown model id.", <<>>),
                                      Line("Type /model to list available models.", <<>>)>>
                      /\ UNCHANGED <<pc, config, history, inflight, lastRequest,
                                     lastStatus, exitCode>>
            ELSE IF trimmed = <<>>
            THEN /\ printed' = <<>>
                 /\ UNCHANGED <<pc, config, history, inflight, lastRequest, lastStatus,
                                exitCode>>
            ELSE /\ Len(history) < 2 * MaxTurns
                 /\ Send(MessagesRequest(config, ChatMessages(history, trimmed)),
                         "chatWait", <<>>)
                 /\ UNCHANGED <<config, history>>
    /\ UNCHANGED <<env, cmd>>

\* api.chat resolves: history = updatedHistory, reply and usage printed.
ChatReply ==
    /\ pc = "chatWait"
    /\ \E message \in Messages :
         LET result == ChatResult(history, lastInput.val, message) IN
         /\ history' = AdoptedHistory(history, result)
         /\ printed' = <<Line("Claude:", result.response),
                         Line("Tokens used:", <<result.usage.inputTokens,
                                                result.usage.outputTokens>>)>>
    /\ inflight' = inflight \ {lastRequest}
    /\ lastStatus' = StatusOk
    /\ afterClear' = IF afterClear = "cleared" THEN "first" ELSE "no"
    /\ pc' = "chatInput"
    /\ UNCHANGED <<env, cmd, config, lastRequest, lastInput, exitCode>>

\* api.chat fails.  The await is not inside any try/catch, so either the
\* client's error routine ends the process, or the rejection leaves the action
\* unhandled and the runtime ends the process; both exit with status 1.
ChatError ==
    /\ pc = "chatWait"
    /\ \E status \in Statuses, viaHandler \in BOOLEAN :
         /\ Exit(handleErrorExit,
                 IF viaHandler THEN handleError(SdkError(status))
                 ELSE <<Line("Unhandled rejection:", <<>>)>>)
         /\ lastStatus' = status
    /\ UNCHANGED <<env, cmd, config, history, lastRequest, lastInput, afterClear>>

\* api.listModels resolves inside the loop.
ChatModelsReply ==
    /\ pc = "chatModelsWait"
    /\ \E hasMore \in BOOLEAN :
         printed' = <<Line("Available Claude Models:", <<>>)>> \o
                    (IF hasMore THEN <<Line("Note: More models are available.", <<>>)>>
                     ELSE <<>>) \o
                    <<Line("Current model:", config.model)>>
    /\ inflight' = inflight \ {lastRequest}
    /\ lastStatus' = StatusOk
    /\ pc' = "chatInput"
    /\ UNCHANGED <<env, cmd, config, history, lastRequest, lastInput, afterClear, exitCode>>

\* api.listModels fails inside the loop: handleError ends the process.
ChatModelsError ==
    /\ pc = "chatModelsWait"
    /\ \E status \in HttpStatuses \cup {0} :
         /\ Exit(handleErrorExit,
                 handleError(IF status = 0 THEN PlainError ELSE ListModelsNotOk(status)))
         /\ lastStatus' = status
    /\ UNCHANGED <<env, cmd, config, history, lastRequest, lastInput, afterClear>>

Next ==
    \/ AskStart \/ AskReply \/ AskError
    \/ ModelsStart \/ ModelsReply \/ ModelsError
    \/ ChatStart \/ ChatInput \/ ChatReply \/ ChatError
    \/ ChatModelsReply \/ ChatModelsError

Spec == Init /\ [][Next]_vars

TypeOK ==
    /\ pc \in {"start", "askWait", "modelsWait", "chatInput", "chatWait",
               "chatModelsWait", "exited"}
    /\ exitCode \in {Running, 0, 1}
    /\ (pc = "exited") = (exitCode # Running)

\* ================================================================ claims
Printed(tag) == \E i \in DOMAIN printed : printed[i].tag = tag

\* The line is `/model <id>`: the command word, whitespace, one id.
IsModelSwitch(t) == Len(SplitWs(t)) = 2 /\ SplitWs(t)[1] = CmdModel

\* C1: in chat, `/model <id>` with an allowed id makes that id the active
\* model, and every request sent from the loop carries the active model; with
\* an id outside the set the line "Unknown model id." is printed, the
\* configuration is unchanged and the session stays at the prompt.
C1_ModelSwitch ==
    [][/\ (pc = "chatInput" /\ lastInput'.def /\ IsModelSwitch(lastInput'.val)) =>
            LET id == SplitWs(lastInput'.val)[2] IN
            /\ pc' = "chatInput" /\ exitCode' = Running /\ inflight' = {}
            /\ (id \in ALLOWED_MODELS => config'.model = id)
            /\ (id \notin ALLOWED_MODELS =>
                  /\ config' = config
                  /\ \E i \in DOMAIN printed' : printed'[i].tag = "Unknown model id.")
       /\ (pc = "chatInput" /\ pc' = "chatWait") =>
            (lastRequest'.kind = "messages" /\ lastRequest'.model = config.model)
      ]_vars

\* C1 witness: a prompt request carrying a model that only `/model <id>` can
\* have selected (the environment offers only the default and SONNET37).
C1_Witness ==
    /\ pc = "chatWait"
    /\ config.model = OPUS41
    /\ lastRequest.kind = "messages" /\ lastRequest.model = OPUS41

\* C2: the model of a loaded Configuration, and the model of every messages
\* request sent, is a member of the allowed-model set.
C2_ModelAlwaysAllowed ==
    /\ (config # NoConfig => config.model \in ALLOWED_MODELS)
    /\ (lastRequest.kind = "messages" => lastRequest.model \in ALLOWED_MODELS)

\* C3: a successful chat turn leaves the session history equal to the history
\* before it, followed by a user turn with the prompt and then an assistant
\* turn with the displayed reply.
C3_TurnAppendsPair ==
    [][(pc = "chatWait" /\ pc' = "chatInput") =>
         history' = history \o <<Turn("user", lastInput.val),
                                 Turn("assistant", printed'[1].arg)>>
      ]_vars

\* C3 witness: a second turn has been appended to a non-empty history.
C3_Witness ==
    /\ pc = "chatInput" /\ Len(history) = 4
    /\ history[3] = Turn("user", lastInput.val)
    /\ history[4].role = "assistant"

\* C4: `/clear` empties the history whatever its length, and the first turn
\* completed after a clear sends only its own user message and leaves the
\* history holding just that user message and the reply.
C4_ClearStartsFresh ==
    [][/\ (pc = "chatInput" /\ lastInput' = Some(CmdClear)) => history' = <<>>
       /\ (afterClear = "cleared" /\ pc = "chatWait" /\ pc' = "chatInput") =>
            /\ lastRequest.messages = <<Turn("user", lastInput.val)>>
            /\ history' = <<Turn("user", lastInput.val),
                            Turn("assistant", printed'[1].arg)>>
      ]_vars

\* C4 witness: a non-empty history was cleared and one turn completed since.
C4_Witness ==
    /\ afterClear = "first" /\ pc = "chatInput"
    /\ Len(history) = 2 /\ Len(lastRequest.messages) = 1

\* C5: a remote call that fails inside the chat loop leaves the process
\* running and the session back at the prompt.
C5_LoopSurvivesFailure ==
    [][(pc \in {"chatWait", "chatModelsWait"} /\ lastStatus' # StatusOk
          /\ pc' # pc) =>
         (pc' = "chatInput" /\ exitCode' = Running)
      ]_vars

\* The API key is present and non-empty in the environment.
ApiKeyPresent == env.ANTHROPIC_API_KEY.def /\ env.ANTHROPIC_API_KEY.val # <<>>

\* C6: with the API key missing or empty no remote call is ever issued, and
\* once the subcommand has started the process has exited with status 1
\* after a configuration error.
C6_NoKeyNoCall ==
    ~ApiKeyPresent =>
        /\ lastRequest = NoRequest /\ inflight = {}
        /\ (pc # "start" =>
              pc = "exited" /\ exitCode = 1 /\ Printed("Configuration error:"))

\* C6 witness: chat started with an empty key and ended with status 1.
C6_Witness ==
    /\ env.ANTHROPIC_API_KEY = Some(<<>>) /\ cmd.name = "chat"
    /\ pc = "exited" /\ exitCode = 1 /\ lastRequest = NoRequest

\* C7: when ask or models ends on a remote failure the exit status is
\* non-zero and the hint for the failure kind was printed (401 credentials,
\* 429 rate limit, 400 bad request).
C7_ClassifiedHint ==
    (pc = "exited" /\ cmd.name \in {"ask", "models"}
       /\ lastStatus \notin {NoStatus, StatusOk}) =>
        /\ exitCode # 0
        /\ (lastStatus = 401 => Printed(HintCredentials))
        /\ (lastStatus = 429 => Printed(HintRateLimit))
        /\ (lastStatus = 400 => Printed(HintBadRequest))

\* C9: `/stream on` and `/stream off` are handled as commands: reading one
\* issues no request and starts no user turn.
C9_StreamIsCommand ==
    [][(pc = "chatInput" /\ lastInput'.def /\ lastInput'.val \in {StreamOn, StreamOff}) =>
         (pc' = "chatInput" /\ lastRequest' = lastRequest /\ inflight' = {}
            /\ history' = history)
      ]_vars

\* A token limit was supplied by the environment or on the command line.
TokensSupplied == env.MAX_TOKENS.def \/ cmd.options.tokens.def

\* C10: the token limit of a loaded Configuration and of every messages
\* request is positive, and is 1000 when no value was supplied.
C10_MaxTokensPositive ==
    /\ (config # NoConfig => config.maxTokens > 0)
    /\ (lastRequest.kind = "messages" =>
          /\ lastRequest.max_tokens > 0
          /\ (~TokensSupplied => lastRequest.max_tokens = DefaultMaxTokens))

\* C11: at most one remote call is outstanding at any time, and while one is
\* outstanding the process is suspended on it: it is not at the input prompt,
\* not at its start and not exited, so no line is read and no second call
\* starts before the first has completed or failed.
C11_OneOutstanding ==
    /\ Cardinality(inflight) <= 1
    /\ (inflight # {} =>
          /\ pc \in {"askWait", "modelsWait", "chatWait", "chatModelsWait"}
          /\ inflight = {lastRequest})
    /\ (pc \in {"start", "chatInput", "exited"} => inflight = {})

\* C11 witness: the loop is suspended on the request of a second turn.
C11_Witness ==
    /\ pc = "chatWait" /\ Len(history) = 2
    /\ Cardinality(inflight) = 1 /\ lastRequest \in inflight

\* The commands of the transition table: /exit, /clear, /help, /model,
\* /model <id>, /stream on, /stream off.
IsTableCommand(t) ==
    \/ t \in {CmdExit, CmdClear, CmdHelp, CmdModel, StreamOn, StreamOff}
    \/ IsModelSwitch(t)

\* C12: reading a non-empty trimmed line that is not a command of the table
\* forwards it to the model as the user message of a request; reading a
\* command forwards nothing; reading an empty line issues no request and
\* changes neither history, configuration nor the loop's position.
C12_DispatchByTable ==
    [][(pc = "chatInput" /\ lastInput'.def) =>
         LET t == lastInput'.val
             forwarded ==
                 /\ pc' = "chatWait"
                 /\ lastRequest'.kind = "messages"
                 /\ lastRequest'.messages = Append(history, Turn("user", t))
                 /\ lastRequest' \in inflight'
         IN  /\ (t # <<>> /\ ~IsTableCommand(t)) => forwarded
             /\ IsTableCommand(t) =>
                  (pc' # "chatWait" /\ (lastRequest'.kind = "messages" =>
                                          lastRequest' = lastRequest))
             /\ t = <<>> =>
                  /\ pc' = pc /\ inflight' = inflight /\ lastRequest' = lastRequest
                  /\ history' = history /\ config' = config
      ]_vars

\* C13: within a chat session the history changes only when `/clear` is read
\* (to empty) or when the turn of a prompt completes (by appending); lines
\* that are commands of the table never lead to a change of history.  The
\* active model changes only when `/model <id>` with an allowed id is read.
C13_Frame ==
    [][(pc \in {"chatInput", "chatWait", "chatModelsWait"}) =>
         /\ history' # history =>
              \/ (pc = "chatInput" /\ lastInput' = Some(CmdClear) /\ history' = <<>>)
              \/ /\ pc = "chatWait" /\ pc' = "chatInput"
                 /\ ~IsTableCommand(lastInput.val)
                 /\ Len(history') > Len(history)
                 /\ SubSeq(history', 1, Len(history)) = history
         /\ config'.model # config.model =>
              /\ pc = "chatInput" /\ IsModelSwitch(lastInput'.val)
              /\ SplitWs(lastInput'.val)[2] \in ALLOWED_MODELS
              /\ config'.model = SplitWs(lastInput'.val)[2]
      ]_vars

\* C14: in every state the history has even length and its turns alternate
\* user, assistant, user, assistant, ... starting with a user turn; this
\* includes the states after a failed turn.
C14_Alternation ==
    /\ Len(history) % 2 = 0
    /\ \A i \in DOMAIN history :
         history[i].role = IF i % 2 = 1 THEN "user" ELSE "assistant"

\* C14 witness: a turn failed after an earlier turn had completed.
C14_Witness ==
    /\ pc = "exited" /\ cmd.name = "chat"
    /\ lastStatus \notin {NoStatus, StatusOk}
    /\ lastRequest.kind = "messages" /\ Len(lastRequest.messages) = 3
    /\ Len(history) = 2

====
